---- MODULE Spec2Model ----
(***************************************************************************)
(* State-machine model of backend/app.py: the task/machine/precedence      *)
(* store behind the Flask handlers, the sequential estimator used by       *)
(* add_task, and the CP-SAT model built and materialised by                *)
(* run_optimization.                                                       *)
(*                                                                         *)
(* Time is counted in ticks; TicksPerMin ticks make one minute, so that    *)
(* timestamps and durations that are not whole minutes exist.  A task's    *)
(* duration_hours is held in ticks as well (timedelta(hours=d) is exact).  *)
(***************************************************************************)
EXTENDS Integers, FiniteSets, Sequences, TLC

\* ------------------------------------------------------------------ bounds
MaxTasks == 2        \* task_id is a serial: at most this many tasks are ever created
MaxMachines == 2     \* machine_id is a serial: at most this many machines ever exist
TicksPerMin == 2     \* resolution of the clock: ticks per minute
horizon == 2         \* the solver's horizon in minutes; 100000 in the source, scaled
                     \* down with the durations so that chains longer than it exist

NULL == -1

Durations == {3, 4}             \* duration_hours of requests, in ticks: 1.5 and 2 minutes
NowSet == {0, 1}                \* values datetime.now() may return, in ticks
StartTimeStrs == {"absent", "bad", "t3"}   \* start_time of POST /api/optimize

valid_statuses == {"In Progress", "Completed", "Canceled", "Pending", "Scheduled"}

\* status values of PATCH /tasks/<id>/status requests: "" is a missing field, "Bogus"
\* an invalid one; "Canceled" is left to "In Progress", which no handler tells from it
StatusInputs == {"In Progress", "Completed", "Pending", "Scheduled", "", "Bogus"}

VARIABLES machines, tasks, precedences, next_task_id, next_machine_id, last, conc

vars == <<machines, tasks, precedences, next_task_id, next_machine_id, last, conc>>

\* ------------------------------------------------------------------ helpers
Max(S) == CHOOSE x \in S : \A y \in S : y <= x

\* datetime.replace(second=0, microsecond=0)
RoundToMinute(t) == (t \div TicksPerMin) * TicksPerMin

\* int(float(duration_hours) * 60)
duration_minutes(d) == d \div TicksPerMin

\* timedelta(minutes=k)
Minutes(k) == k * TicksPerMin

\* The response to the last request: the handler, its HTTP code and, where a claim
\* reads them, the task or machine id it names, the "status" of its body (for
\* edit_task_details: the task's status before the edit), the precedence edge asked
\* for, and for run_optimization the backlog it solved (task_vars), its
\* schedule_start_time and its makespan_minutes.
Response(op, code, id) ==
  [op |-> op, code |-> code, task_id |-> id, status |-> "", edge |-> <<0, 0>>,
   solved |-> {}, anchor |-> NULL, makespan |-> NULL]

\* ------------------------------------------------------------------ estimator
\* the estimator without the rounding of the anchor
MaxEndTimeNoFloor(ts, machine_id, duration, now) ==
  LET ends == {ts[t].end_time : t \in {u \in DOMAIN ts :
                   ts[u].required_machine_id = machine_id /\ ts[u].end_time # NULL}}
      start_time == IF ends # {} THEN Max(ends) ELSE now
  IN  <<start_time, start_time + duration>>

\* SELECT MAX(end_time) FROM tasks WHERE required_machine_id = machine_id, or now();
\* rounded down to the minute; end = start + timedelta(hours=duration_hours)
calculate_sequential_schedule(ts, machine_id, duration, now) ==
  LET ends == {ts[t].end_time : t \in {u \in DOMAIN ts :
                   ts[u].required_machine_id = machine_id /\ ts[u].end_time # NULL}}
      latest == IF ends # {} THEN Max(ends) ELSE now
      start_time == RoundToMinute(latest)
  IN  <<start_time, start_time + duration>>

\* ------------------------------------------------------------------ assembler
\* A filter that leaves out only the Completed tasks.
FetchNotCompleted(ts) == {t \in DOMAIN ts : ts[t].status # "Completed"}

\* WHERE t.status != 'Completed' AND t.status != 'Scheduled'
fetch_tasks(ts) == {t \in DOMAIN ts : ts[t].status # "Completed" /\ ts[t].status # "Scheduled"}

\* ------------------------------------------------------------------ CP model
\* NewIntVar(0, horizon) for start and end, NewIntervalVar(start, duration_minutes, end)
EndOf(a, ts, t) == a[t] + duration_minutes(ts[t].duration_hours)

IntervalVars(a, ids, ts) ==
  \A t \in ids : a[t] \in 0..horizon /\ EndOf(a, ts, t) \in 0..horizon

\* the precedence constraint with predecessor and successor swapped
PrecedenceReversed(a, ids, ts, ps) ==
  \A e \in ps : (e[1] \in ids /\ e[2] \in ids) => a[e[1]] >= EndOf(a, ts, e[2])

\* model.Add(task_vars[successor_id]['start'] >= task_vars[predecessor_id]['end'])
PrecedenceConstraints(a, ids, ts, ps) ==
  \A e \in ps : (e[1] \in ids /\ e[2] \in ids) => a[e[2]] >= EndOf(a, ts, e[1])

\* AddNoOverlap(intervals): every two intervals of the list are disjoint
AddNoOverlap(a, ts, intervals) ==
  \A t \in intervals : \A u \in intervals :
     t # u => (EndOf(a, ts, t) <= a[u] \/ EndOf(a, ts, u) <= a[t])

\* a model that posts no AddNoOverlap
CapacityIgnored(a, ids, ts, ms) == TRUE

\* machine_intervals by machine; AddNoOverlap for the machines of capacity 1 only
CapacityConstraints(a, ids, ts, ms) ==
  LET machine_intervals == [m \in DOMAIN ms |-> {t \in ids : ts[t].required_machine_id = m}]
  IN  \A m \in DOMAIN ms : ms[m].capacity = 1 => AddNoOverlap(a, ts, machine_intervals[m])

\* AddMaxEquality(max_end_time, all_ends)
max_end_time(a, ids, ts) == Max({EndOf(a, ts, t) : t \in ids})

\* the assignments of start offsets that satisfy the CpModel
ModelSolutions(ids, ts, ms, ps) ==
  {a \in [ids -> 0..horizon] :
     /\ IntervalVars(a, ids, ts)
     /\ PrecedenceConstraints(a, ids, ts, ps)
     /\ CapacityConstraints(a, ids, ts, ms)}

\* a solver that returns any assignment of the model, the objective dropped
SolveAnyFeasible(ids, ts, ms, ps) == ModelSolutions(ids, ts, ms, ps)

\* model.Minimize(max_end_time); solver.Solve(model): the assignments the solver
\* may return (none: INFEASIBLE)
Solve(ids, ts, ms, ps) ==
  LET sols == ModelSolutions(ids, ts, ms, ps)
  IN  {a \in sols : \A b \in sols : max_end_time(a, ids, ts) <= max_end_time(b, ids, ts)}

\* ------------------------------------------------------------------ materializer
\* the UPDATE of one task of the batch
UpdateTask(task, a, t, anchor, ts) ==
  [task EXCEPT !.start_time = anchor + Minutes(a[t]),
               !.end_time = anchor + Minutes(EndOf(a, ts, t)),
               !.status = "Scheduled"]

\* the rows after the UPDATEs of the tasks in `done` (task_vars is walked in task_id order)
ApplyUpdates(ts, a, done, anchor) ==
  [t \in DOMAIN ts |-> IF t \in done THEN UpdateTask(ts[t], a, t, anchor, ts) ELSE ts[t]]

\* a batch whose UPDATEs are each committed at once: a failure keeps those done
KeepPartial(before, partial) == partial

\* conn.rollback() in the except branch: the uncommitted UPDATEs are discarded
Rollback(before, partial) == before

\* ------------------------------------------------------------------ request threads
\* The server runs each request in its own thread, with its own connection.  Under
\* Spec every handler runs alone, start to end; SpecConc interleaves the handlers'
\* statements, and conc holds each thread's position and locals.
Procs == {1, 2}

Idle == [pc |-> "idle", code |-> 0, task_vars |-> {}, rows |-> <<>>, assignment |-> <<>>,
         anchor |-> NULL, written |-> {}]

\* ------------------------------------------------------------------ initial store
\* The store the server starts on: empty, or holding two tasks as two POST /tasks on
\* machine 1 leave them, with precedence rows between them.
SeedTask(id, d, m, start_time) ==
  [job_id |-> id, duration_hours |-> d, required_machine_id |-> m,
   status |-> "Pending", start_time |-> start_time, end_time |-> start_time + d]

Init ==
  /\ machines = (1 :> [capacity |-> 1])
  /\ next_machine_id = 2
  /\ \/ /\ tasks = [t \in {} |-> SeedTask(0, 1, 1, 0)]
        /\ precedences = {}
        /\ next_task_id = 1
     \/ /\ tasks = (1 :> SeedTask(1, 3, 1, 0) @@ 2 :> SeedTask(2, 3, 1, RoundToMinute(3)))
        /\ precedences \in {{<<1, 2>>}, {<<1, 2>>, <<2, 1>>}}
        /\ next_task_id = 3
  /\ last = Response("init", 0, 0)
  /\ conc = [p \in Procs |-> Idle]


\* ------------------------------------------------------------------ handlers
\* POST /tasks.  name, duration_hours: "" and 0 stand for a missing (falsy) field;
\* machine_name is a machine's unique name, written as its id.
add_task(name, duration_hours, machine_name) ==
  /\ next_task_id <= MaxTasks
  /\ IF name = "" \/ duration_hours = 0
     THEN /\ last' = Response("add_task", 400, 0)
          /\ UNCHANGED <<tasks, next_task_id>>
     ELSE IF machine_name \notin DOMAIN machines
     THEN /\ last' = Response("add_task", 404, 0)
          /\ UNCHANGED <<tasks, next_task_id>>
     ELSE \E now \in NowSet :
          LET new_job_id == IF DOMAIN tasks = {} THEN 1
                            ELSE Max({tasks[t].job_id : t \in DOMAIN tasks}) + 1
              times == calculate_sequential_schedule(tasks, machine_name, duration_hours, now)
              row == [job_id |-> new_job_id, duration_hours |-> duration_hours,
                      required_machine_id |-> machine_name, status |-> "Pending",
                      start_time |-> times[1], end_time |-> times[2]]
          IN  /\ tasks' = (next_task_id :> row) @@ tasks
              /\ next_task_id' = next_task_id + 1
              /\ last' = Response("add_task", 201, next_task_id)
  /\ UNCHANGED <<machines, precedences, next_machine_id, conc>>

\* cur.execute(sql, predecessor_id=...) of POST /precedences: execute() takes no such
\* keyword, so the call raises TypeError before any row is sent to the store
execute_insert_precedence(ps, predecessor_id, successor_id) ==
  [raised |-> TRUE, rows |-> ps]

\* POST /precedences.  0 stands for a missing (falsy) id.
add_precedence(predecessor_id, successor_id) ==
  /\ IF predecessor_id = 0 \/ successor_id = 0
     THEN /\ last' = Response("add_precedence", 400, 0)
          /\ UNCHANGED precedences
     ELSE LET r == execute_insert_precedence(precedences, predecessor_id, successor_id)
          IN  /\ precedences' = r.rows
              /\ last' = [Response("add_precedence", IF r.raised THEN 500 ELSE 201, 0)
                            EXCEPT !.edge = <<predecessor_id, successor_id>>]
  /\ UNCHANGED <<machines, tasks, next_task_id, next_machine_id, conc>>

\* PATCH /tasks/<id>/status.  "" stands for a missing status.
update_task_status(task_id, new_status) ==
  /\ IF new_status = "" \/ new_status \notin valid_statuses
     THEN /\ last' = Response("update_task_status", 400, 0)
          /\ UNCHANGED tasks
     ELSE IF task_id \notin DOMAIN tasks
     THEN /\ last' = Response("update_task_status", 404, 0)
          /\ UNCHANGED tasks
     ELSE /\ tasks' = [tasks EXCEPT ![task_id].status = new_status]
          /\ last' = Response("update_task_status", 200, task_id)
  /\ UNCHANGED <<machines, precedences, next_task_id, next_machine_id, conc>>

\* POST /machines.  capacity 0 stands for an absent capacity (defaults to 1).
add_machine(name, capacity) ==
  /\ next_machine_id <= MaxMachines
  /\ IF name = ""
     THEN /\ last' = Response("add_machine", 400, 0)
          /\ UNCHANGED <<machines, next_machine_id>>
     ELSE /\ machines' = (next_machine_id :>
                            [capacity |-> IF capacity = 0 THEN 1 ELSE capacity]) @@ machines
          /\ next_machine_id' = next_machine_id + 1
          /\ last' = Response("add_machine", 201, next_machine_id)
  /\ UNCHANGED <<tasks, precedences, next_task_id, conc>>

\* strptime(start_time_str.split('.')[0], '%Y-%m-%dT%H:%M:%S'): the instant in ticks,
\* NULL for ValueError
ParseStartTime(start_time_str) == IF start_time_str = "t3" THEN 3 ELSE NULL

\* a handler that reads solver.Value without a solution and ends in the except branch
CodeCrashOnInfeasible(status) == IF status = "OPTIMAL" \/ status = "FEASIBLE" THEN 200 ELSE 500

\* the branches on the solver's status
StatusCode(status) == IF status = "OPTIMAL" \/ status = "FEASIBLE" THEN 200 ELSE 400

\* POST /api/optimize.  now: what datetime.now() returns when start_time is absent.
\* fail = 0: the store accepts every statement; fail = k: the k-th statement of the
\* batch (the n UPDATEs, then the commit) raises.
run_optimization(start_time_str) ==
  /\ IF start_time_str # "absent" /\ ParseStartTime(start_time_str) = NULL
     THEN /\ last' = [Response("run_optimization", 400, 0) EXCEPT
                         !.status = "INVALID_START_TIME"]
          /\ UNCHANGED tasks
     ELSE \E now \in (IF start_time_str = "absent" THEN NowSet ELSE {NULL}) :
          LET schedule_start_time ==
                RoundToMinute(IF start_time_str = "absent" THEN RoundToMinute(now)
                              ELSE ParseStartTime(start_time_str))
              task_vars == fetch_tasks(tasks)
              sols == Solve(task_vars, tasks, machines, precedences)
              status == IF sols # {} THEN "OPTIMAL" ELSE "INFEASIBLE"
              base == [Response("run_optimization", 0, 0) EXCEPT !.solved = task_vars]
          IN  IF task_vars = {}
              THEN /\ last' = [base EXCEPT !.code = 200, !.status = "NO_TASKS"]
                   /\ UNCHANGED tasks
              ELSE IF StatusCode(status) # 200
              THEN /\ last' = [base EXCEPT !.code = StatusCode(status), !.status = status]
                   /\ UNCHANGED tasks
              ELSE \E a \in sols, fail \in 0..(Cardinality(task_vars) + 1) :
                     /\ IF fail = 0
                        THEN /\ tasks' = ApplyUpdates(tasks, a, task_vars, schedule_start_time)
                             /\ last' = [base EXCEPT !.code = 200, !.status = "OPTIMAL",
                                           !.anchor = schedule_start_time,
                                           !.makespan = max_end_time(a, task_vars, tasks)]
                        ELSE LET done == {t \in task_vars :
                                            Cardinality({u \in task_vars : u <= t}) < fail}
                             IN  /\ tasks' = Rollback(tasks,
                                               ApplyUpdates(tasks, a, done, schedule_start_time))
                                 /\ last' = [base EXCEPT !.code = 500, !.status = "ERROR"]
  /\ UNCHANGED <<machines, precedences, next_task_id, next_machine_id, conc>>

\* DELETE /tasks/<id>
delete_task(task_id) ==
  /\ IF task_id \notin DOMAIN tasks
     THEN /\ last' = Response("delete_task", 404, 0)
          /\ UNCHANGED <<tasks, precedences>>
     ELSE /\ precedences' = {e \in precedences : e[1] # task_id /\ e[2] # task_id}
          /\ tasks' = [t \in DOMAIN tasks \ {task_id} |-> tasks[t]]
          /\ last' = Response("delete_task", 200, task_id)
  /\ UNCHANGED <<machines, next_task_id, next_machine_id, conc>>

\* the reset with end_time = NULL left out
ResetKeepsEndTime(task) == [task EXCEPT !.status = "Pending", !.start_time = NULL]

\* SET ..., status = 'Pending', start_time = NULL, end_time = NULL
ResetToPending(task) ==
  [task EXCEPT !.status = "Pending", !.start_time = NULL, !.end_time = NULL]

\* PATCH /tasks/<id>.  keys: the fields present in the body.
edit_task_details(task_id, keys, duration_hours, machine_name) ==
  /\ IF keys \cap {"name", "duration_hours", "machine_name"} = {}
     THEN /\ last' = Response("edit_task_details", 400, 0)
          /\ UNCHANGED tasks
     ELSE IF "machine_name" \in keys /\ machine_name \notin DOMAIN machines
     THEN /\ last' = Response("edit_task_details", 404, 0)
          /\ UNCHANGED tasks
     ELSE IF task_id \notin DOMAIN tasks
     THEN /\ last' = Response("edit_task_details", 404, 0)
          /\ UNCHANGED tasks
     ELSE LET t1 == IF "duration_hours" \in keys
                    THEN [tasks[task_id] EXCEPT !.duration_hours = duration_hours]
                    ELSE tasks[task_id]
              t2 == IF "machine_name" \in keys
                    THEN [t1 EXCEPT !.required_machine_id = machine_name]
                    ELSE t1
          IN  /\ tasks' = [tasks EXCEPT ![task_id] = ResetToPending(t2)]
              /\ last' = [Response("edit_task_details", 200, task_id) EXCEPT
                            !.status = tasks[task_id].status]
  /\ UNCHANGED <<machines, precedences, next_task_id, next_machine_id, conc>>

\* A count that overlooks the tasks already Completed.
TaskCountOpenOnly(ts, machine_id) ==
  Cardinality({t \in DOMAIN ts : /\ ts[t].required_machine_id = machine_id
                                 /\ ts[t].status # "Completed"})

\* SELECT COUNT(*) FROM tasks WHERE required_machine_id = %s
task_count(ts, machine_id) ==
  Cardinality({t \in DOMAIN ts : ts[t].required_machine_id = machine_id})

\* DELETE /api/machines/<id>
delete_machine(machine_id) ==
  /\ IF task_count(tasks, machine_id) > 0
     THEN /\ last' = Response("delete_machine", 409, machine_id)
          /\ UNCHANGED machines
     ELSE IF machine_id \notin DOMAIN machines
     THEN /\ last' = Response("delete_machine", 404, machine_id)
          /\ UNCHANGED machines
     ELSE /\ machines' = [m \in DOMAIN machines \ {machine_id} |-> machines[m]]
          /\ last' = Response("delete_machine", 200, machine_id)
  /\ UNCHANGED <<tasks, precedences, next_task_id, next_machine_id, conc>>

\* ------------------------------------------------------------------ specification
AddTask == \E name \in {"", "n"}, d \in Durations \cup {0}, m \in 1..MaxMachines :
             add_task(name, d, m)

AddPrecedence == \E p \in 0..1, s \in {0, 2} : add_precedence(p, s)

UpdateTaskStatus == \E t \in 1..MaxTasks, st \in StatusInputs :
                      update_task_status(t, st)

AddMachine == \E name \in {"", "n"}, c \in 0..2 : add_machine(name, c)

RunOptimization == \E s \in StartTimeStrs : run_optimization(s)

DeleteTask == \E t \in 1..MaxTasks : delete_task(t)

EditTaskDetails ==
  \E t \in 1..MaxTasks, keys \in SUBSET {"name", "duration_hours", "machine_name"} :
    \E d \in (IF "duration_hours" \in keys THEN Durations ELSE {NULL}),
       m \in (IF "machine_name" \in keys THEN 1..MaxMachines ELSE {NULL}) :
      edit_task_details(t, keys, d, m)

DeleteMachine == \E m \in 1..MaxMachines : delete_machine(m)

Next ==
  \/ AddTask
  \/ AddPrecedence
  \/ UpdateTaskStatus
  \/ AddMachine
  \/ RunOptimization
  \/ DeleteTask
  \/ EditTaskDetails
  \/ DeleteMachine

Spec == Init /\ [][Next]_vars


\* ------------------------------------------------------------------ interleaved handlers
\* run_optimization, statement by statement, in thread p.  Each connection runs at
\* READ COMMITTED: a statement reads what is committed when it runs, an UPDATE waits
\* for the row lock of another connection's uncommitted UPDATE, and the thread's own
\* UPDATEs reach the tasks table at its commit.

\* fetch_scheduling_data: the backlog as this thread read it
c_fetch(p, start_time_str) ==
  /\ conc[p].pc = "idle"
  /\ IF start_time_str # "absent" /\ ParseStartTime(start_time_str) = NULL
     THEN conc' = [conc EXCEPT ![p] = [Idle EXCEPT !.pc = "done", !.code = 400]]
     ELSE \E now \in (IF start_time_str = "absent" THEN NowSet ELSE {NULL}) :
          LET schedule_start_time ==
                RoundToMinute(IF start_time_str = "absent" THEN RoundToMinute(now)
                              ELSE ParseStartTime(start_time_str))
              task_vars == fetch_tasks(tasks)
          IN  IF task_vars = {}
              THEN conc' = [conc EXCEPT ![p] = [Idle EXCEPT !.pc = "done", !.code = 200]]
              ELSE conc' = [conc EXCEPT ![p] =
                              [Idle EXCEPT !.pc = "fetched", !.task_vars = task_vars,
                                           !.rows = [t \in task_vars |-> tasks[t]],
                                           !.anchor = schedule_start_time]]
  /\ UNCHANGED <<machines, tasks, precedences, next_task_id, next_machine_id, last>>

\* the model is built from the rows read and solved
c_solve(p) ==
  /\ conc[p].pc = "fetched"
  /\ LET sols == Solve(conc[p].task_vars, conc[p].rows, machines, precedences)
         status == IF sols # {} THEN "OPTIMAL" ELSE "INFEASIBLE"
     IN  IF StatusCode(status) # 200
         THEN conc' = [conc EXCEPT ![p] = [Idle EXCEPT !.pc = "done",
                                                        !.code = StatusCode(status)]]
         ELSE \E a \in sols :
                conc' = [conc EXCEPT ![p].pc = "updating", ![p].assignment = a]
  /\ UNCHANGED <<machines, tasks, precedences, next_task_id, next_machine_id, last>>

\* the next UPDATE of the batch, in task_id order
c_update(p) ==
  /\ conc[p].pc = "updating"
  /\ conc[p].written # conc[p].task_vars
  /\ LET t == CHOOSE u \in conc[p].task_vars \ conc[p].written :
                 \A w \in conc[p].task_vars \ conc[p].written : u <= w
     IN  /\ \A q \in Procs \ {p} : t \notin conc[q].written
         /\ conc' = [conc EXCEPT ![p].written = conc[p].written \cup {t}]
  /\ UNCHANGED <<machines, tasks, precedences, next_task_id, next_machine_id, last>>

\* conn.commit(): the thread's UPDATEs reach the rows that still exist
c_commit(p) ==
  /\ conc[p].pc = "updating"
  /\ conc[p].written = conc[p].task_vars
  /\ tasks' = [t \in DOMAIN tasks |->
                 IF t \in conc[p].written
                 THEN UpdateTask(tasks[t], conc[p].assignment, t, conc[p].anchor, conc[p].rows)
                 ELSE tasks[t]]
  /\ conc' = [conc EXCEPT ![p] = [Idle EXCEPT !.pc = "done", !.code = 200]]
  /\ UNCHANGED <<machines, precedences, next_task_id, next_machine_id, last>>

\* a statement of the batch raises: conn.rollback() drops the thread's UPDATEs
c_fail(p) ==
  /\ conc[p].pc = "updating"
  /\ conc' = [conc EXCEPT ![p] = [Idle EXCEPT !.pc = "done", !.code = 500]]
  /\ UNCHANGED <<machines, tasks, precedences, next_task_id, next_machine_id, last>>

\* the response is sent and the thread takes the next request
c_return(p) ==
  /\ conc[p].pc = "done"
  /\ conc' = [conc EXCEPT ![p] = Idle]
  /\ UNCHANGED <<machines, tasks, precedences, next_task_id, next_machine_id, last>>

\* add_task in thread p, up to calculate_sequential_schedule: the row it will insert
c_add_read(p, duration_hours, machine_name) ==
  /\ conc[p].pc = "idle"
  /\ next_task_id + Cardinality({q \in Procs : conc[q].pc = "inserting"}) <= MaxTasks
  /\ IF machine_name \notin DOMAIN machines
     THEN conc' = [conc EXCEPT ![p] = [Idle EXCEPT !.pc = "done", !.code = 404]]
     ELSE \E now \in NowSet :
          LET new_job_id == IF DOMAIN tasks = {} THEN 1
                            ELSE Max({tasks[t].job_id : t \in DOMAIN tasks}) + 1
              times == calculate_sequential_schedule(tasks, machine_name, duration_hours, now)
              row == [job_id |-> new_job_id, duration_hours |-> duration_hours,
                      required_machine_id |-> machine_name, status |-> "Pending",
                      start_time |-> times[1], end_time |-> times[2]]
          IN  conc' = [conc EXCEPT ![p] = [Idle EXCEPT !.pc = "inserting", !.rows = <<row>>]]
  /\ UNCHANGED <<machines, tasks, precedences, next_task_id, next_machine_id, last>>

\* the INSERT and the commit of add_task
c_add_insert(p) ==
  /\ conc[p].pc = "inserting"
  /\ tasks' = (next_task_id :> conc[p].rows[1]) @@ tasks
  /\ next_task_id' = next_task_id + 1
  /\ conc' = [conc EXCEPT ![p] = [Idle EXCEPT !.pc = "done", !.code = 201,
                                                !.written = {next_task_id}]]
  /\ UNCHANGED <<machines, precedences, next_machine_id, last>>

CFetch == \E p \in Procs, s \in StartTimeStrs : c_fetch(p, s)
CSolve == \E p \in Procs : c_solve(p)
CUpdate == \E p \in Procs : c_update(p)
CCommit == \E p \in Procs : c_commit(p)
CFail == \E p \in Procs : c_fail(p)
CReturn == \E p \in Procs : c_return(p)
CAddRead == \E p \in Procs, d \in Durations, m \in 1..MaxMachines : c_add_read(p, d, m)
CAddInsert == \E p \in Procs : c_add_insert(p)

NextConc ==
  \/ CFetch
  \/ CSolve
  \/ CUpdate
  \/ CCommit
  \/ CFail
  \/ CReturn
  \/ CAddRead
  \/ CAddInsert

SpecConc == Init /\ [][NextConc]_vars

\* ------------------------------------------------------------------ claims
\* the last request was a run_optimization that solved and saved a schedule
OptimizeSucceeded ==
  last.op = "run_optimization" /\ last.code = 200 /\ last.status = "OPTIMAL"

\* the offsets in minutes of a persisted window from the run's schedule_start_time
StartOffset(t) == (tasks[t].start_time - last.anchor) \div TicksPerMin
EndOffset(t) == (tasks[t].end_time - last.anchor) \div TicksPerMin

\* C1: after a successful run_optimization, for every precedence edge whose two tasks
\* were both in the solved backlog, the persisted start_time of the successor is at or
\* after the persisted end_time of the predecessor.
C1_PrecedenceRespected ==
  OptimizeSucceeded =>
    \A e \in precedences :
      (e[1] \in last.solved /\ e[2] \in last.solved) =>
         tasks[e[2]].start_time >= tasks[e[1]].end_time

C1_Witness ==
  /\ OptimizeSucceeded
  /\ \E e \in precedences :
       /\ e[1] \in last.solved /\ e[2] \in last.solved
       /\ tasks[e[1]].end_time > tasks[e[1]].start_time
       /\ tasks[e[2]].start_time >= tasks[e[1]].end_time

\* C2: after a successful run_optimization, two distinct tasks of the solved backlog
\* that require the same machine of capacity 1 have persisted windows that do not
\* overlap: one ends at or before the other starts.
C2_NoOverlapOnExclusiveMachine ==
  OptimizeSucceeded =>
    \A t \in last.solved : \A u \in last.solved :
      ( /\ t # u
        /\ tasks[t].required_machine_id = tasks[u].required_machine_id
        /\ tasks[t].required_machine_id \in DOMAIN machines
        /\ machines[tasks[t].required_machine_id].capacity = 1 )
      => (tasks[t].end_time <= tasks[u].start_time \/ tasks[u].end_time <= tasks[t].start_time)

C2_Witness ==
  /\ OptimizeSucceeded
  /\ \E t \in last.solved : \E u \in last.solved :
       /\ t # u
       /\ tasks[t].required_machine_id = tasks[u].required_machine_id
       /\ machines[tasks[t].required_machine_id].capacity = 1
       /\ tasks[t].end_time > tasks[t].start_time
       /\ tasks[u].end_time > tasks[u].start_time
       /\ tasks[t].end_time <= tasks[u].start_time

\* An assignment of start offsets to the tasks `ids` that satisfies the duration,
\* precedence, capacity-1 no-overlap and [0, horizon] constraints, stated over the store.
ValidAssignment(b, ids) ==
  LET dur(t) == tasks[t].duration_hours \div TicksPerMin
      end(t) == b[t] + dur(t)
  IN  /\ \A t \in ids : 0 <= b[t] /\ end(t) <= horizon
      /\ \A t \in ids : \A u \in ids :
           <<t, u>> \in precedences => end(t) <= b[u]
      /\ \A t \in ids : \A u \in ids :
           ( /\ t # u
             /\ tasks[t].required_machine_id = tasks[u].required_machine_id
             /\ tasks[t].required_machine_id \in DOMAIN machines
             /\ machines[tasks[t].required_machine_id].capacity = 1 )
           => (end(t) <= b[u] \/ end(u) <= b[t])

MaxEnd(b, ids) == Max({b[t] + (tasks[t].duration_hours \div TicksPerMin) : t \in ids})

\* C3: the makespan a successful run_optimization reports is the maximum end offset
\* over the solved tasks, and no assignment satisfying the duration, precedence,
\* capacity-1 no-overlap and [0, horizon] constraints has a smaller maximum end offset.
C3_MakespanOptimal ==
  OptimizeSucceeded =>
    /\ last.makespan = Max({EndOffset(t) : t \in last.solved})
    /\ \A t \in last.solved :
         EndOffset(t) - StartOffset(t) = tasks[t].duration_hours \div TicksPerMin
    /\ \A b \in [last.solved -> 0..horizon] :
         ValidAssignment(b, last.solved) => MaxEnd(b, last.solved) >= last.makespan

C3_Witness ==
  /\ OptimizeSucceeded
  /\ Cardinality(last.solved) >= 2
  /\ last.makespan >= 1
  /\ \E b \in [last.solved -> 0..horizon] :
       ValidAssignment(b, last.solved) /\ MaxEnd(b, last.solved) > last.makespan

\* C4: every task whose status is Scheduled or Completed has start_time and end_time
\* set, and end_time - start_time equals its duration to the minute.
C4_ScheduledHasWindow ==
  \A t \in DOMAIN tasks :
    tasks[t].status \in {"Scheduled", "Completed"} =>
      /\ tasks[t].start_time # NULL
      /\ tasks[t].end_time # NULL
      /\ (tasks[t].end_time - tasks[t].start_time) \div TicksPerMin
           = tasks[t].duration_hours \div TicksPerMin

\* C5: materialization is all-or-nothing: when a run_optimization that reached the
\* batch ends, either every task of the solved backlog is Scheduled with a new window
\* of its duration, or (a statement of the batch failed) no task row differs from
\* before the run.
C5_AllOrNothing ==
  [][ (last'.op = "run_optimization" /\ last'.status \in {"OPTIMAL", "ERROR"}) =>
        \/ /\ last'.code = 200
           /\ \A t \in last'.solved :
                /\ tasks'[t].status = "Scheduled"
                /\ tasks'[t].start_time >= last'.anchor
                /\ tasks'[t].end_time - tasks'[t].start_time
                     = Minutes(tasks[t].duration_hours \div TicksPerMin)
        \/ /\ last'.code = 500
           /\ tasks' = tasks ]_vars

C5_Witness ==
  /\ last.op = "run_optimization" /\ last.status = "ERROR" /\ last.code = 500
  /\ Cardinality(last.solved) >= 2
  /\ \A t \in last.solved : tasks[t].status # "Scheduled"

\* the backlog of the store is not empty and has no valid assignment
NoValidAssignment ==
  LET ids == {t \in DOMAIN tasks : tasks[t].status \notin {"Completed", "Scheduled"}}
  IN  ids # {} /\ \A b \in [ids -> 0..horizon] : ~ValidAssignment(b, ids)

\* C6: when the backlog has no valid assignment, run_optimization (given a well-formed
\* start_time) answers 400 with status INFEASIBLE and leaves every task unchanged.
C6_InfeasibleLeavesStore ==
  [][ ( /\ last'.op = "run_optimization"
        /\ last'.status # "INVALID_START_TIME"
        /\ NoValidAssignment )
      => (last'.code = 400 /\ last'.status = "INFEASIBLE" /\ tasks' = tasks) ]_vars

C6_Witness ==
  /\ last.op = "run_optimization" /\ last.code = 400 /\ last.status = "INFEASIBLE"
  /\ {<<1, 2>>, <<2, 1>>} \subseteq precedences
  /\ {1, 2} \subseteq last.solved
  /\ tasks[1].required_machine_id = tasks[2].required_machine_id
  /\ machines[tasks[1].required_machine_id].capacity = 1

\* a chain that does not fit in the horizon, with no cycle
C6_WitnessHorizon ==
  /\ last.op = "run_optimization" /\ last.code = 400 /\ last.status = "INFEASIBLE"
  /\ precedences = {<<1, 2>>}
  /\ tasks[1].required_machine_id # tasks[2].required_machine_id

\* C7: after a successful edit_task_details the edited task is Pending with start_time
\* and end_time cleared, whatever they were before, and a run_optimization that
\* follows has it in its backlog.
C7_EditResets ==
  [][ /\ (last'.op = "edit_task_details" /\ last'.code = 200) =>
           /\ tasks'[last'.task_id].status = "Pending"
           /\ tasks'[last'.task_id].start_time = NULL
           /\ tasks'[last'.task_id].end_time = NULL
      /\ ( /\ last.op = "edit_task_details" /\ last.code = 200
           /\ last'.op = "run_optimization" /\ last'.status # "INVALID_START_TIME" )
         => last.task_id \in last'.solved ]_vars

C7_Witness ==
  /\ last.op = "edit_task_details" /\ last.code = 200
  /\ last.status \in {"Scheduled", "Completed"}
  /\ tasks[last.task_id].status = "Pending"

\* the latest end_time on machine m, NULL when no task bound to m has one
LatestEnd(ts, m) ==
  LET on == {t \in DOMAIN ts : ts[t].required_machine_id = m /\ ts[t].end_time # NULL}
  IN  IF on = {} THEN NULL ELSE Max({ts[t].end_time : t \in on})

\* start and end of the task a successful add_task has just inserted
AddTaskAnchored ==
  LET new == tasks'[last'.task_id]
      latest == LatestEnd(tasks, new.required_machine_id)
  IN  /\ IF latest = NULL
         THEN \E now \in NowSet : new.start_time = (now \div TicksPerMin) * TicksPerMin
         ELSE new.start_time = (latest \div TicksPerMin) * TicksPerMin
      /\ new.end_time = new.start_time + new.duration_hours

C9_EdgeAdded ==
  (last.op = "add_precedence" /\ last.edge[1] # 0 /\ last.edge[2] # 0) =>
     (last.code = 201 /\ last.edge \in precedences)


\* the threads inside a solve-and-materialize cycle: the backlog read, not yet committed
InCycle == {p \in Procs : conc[p].pc \in {"fetched", "updating"}}

\* C10: optimization runs are serialized: at most one solve-and-materialize cycle
\* (from the read of the backlog to the commit) is executing at a time.
C10_RunsSerialized == Cardinality(InCycle) <= 1

\* ------------------------------------------------------------------ C11
\* The tasks of the store that require machine m.
RequiringTasks(m) == {t \in DOMAIN tasks : tasks[t].required_machine_id = m}

\* C11: a delete_machine request for a machine that at least one task requires
\* is answered 409 and leaves the machines and every task as they were; so
\* before and after every step each task's required machine exists.
C11_ReferencedMachineKept ==
  [][/\ \A t \in DOMAIN tasks : tasks[t].required_machine_id \in DOMAIN machines
     /\ \A t \in DOMAIN tasks' : tasks'[t].required_machine_id \in DOMAIN machines'
     /\ (last'.op = "delete_machine" /\ RequiringTasks(last'.task_id) # {})
          => /\ last'.code = 409
             /\ machines' = machines
             /\ tasks' = tasks]_vars

\* A delete_machine request was refused because a task requires the machine.
C11_Witness ==
  /\ last.op = "delete_machine"
  /\ last.code = 409
  /\ RequiringTasks(last.task_id) # {}
  /\ last.task_id \in DOMAIN machines

\* ------------------------------------------------------------------ C12
\* Two tasks whose [start_time, end_time) windows share an instant.
WindowsOverlap(a, b) ==
  /\ a.start_time # NULL /\ a.end_time # NULL
  /\ b.start_time # NULL /\ b.end_time # NULL
  /\ a.start_time < b.end_time
  /\ b.start_time < a.end_time

\* Scheduled tasks t, u of the store that require the same machine of capacity 1.
ScheduledOnExclusive(t, u) ==
  /\ tasks[t].status = "Scheduled"
  /\ tasks[u].status = "Scheduled"
  /\ tasks[t].required_machine_id = tasks[u].required_machine_id
  /\ tasks[t].required_machine_id \in DOMAIN machines
  /\ machines[tasks[t].required_machine_id].capacity = 1

\* C12: in every state no two Scheduled tasks that require the same machine of
\* capacity 1 have overlapping [start_time, end_time) windows, whichever
\* optimization runs scheduled them.
C12_ScheduledNeverOverlap ==
  \A t, u \in DOMAIN tasks :
    (t # u /\ ScheduledOnExclusive(t, u)) => ~WindowsOverlap(tasks[t], tasks[u])

\* Two runs scheduled one task each on the same machine of capacity 1: the
\* last run solved only u, t was Scheduled before it, and their windows overlap.
C12_TwoRunsOverlap ==
  \E t, u \in DOMAIN tasks :
    /\ t # u
    /\ OptimizeSucceeded
    /\ last.solved = {u}
    /\ ScheduledOnExclusive(t, u)
    /\ WindowsOverlap(tasks[t], tasks[u])

\* ------------------------------------------------------------------ C13
\* The tasks of the store that are Completed or Scheduled.
Settled == {t \in DOMAIN tasks : tasks[t].status \in {"Completed", "Scheduled"}}

\* C13: a run of run_optimization changes only tasks that were neither Completed
\* nor Scheduled when it started: every Completed or Scheduled task keeps its
\* status, start_time and end_time, no task appears or disappears, and a run
\* that finds no other task answers 200 and changes nothing.
C13_SettledTasksKept ==
  [][last'.op = "run_optimization"
       => /\ DOMAIN tasks' = DOMAIN tasks
          /\ \A t \in Settled : tasks'[t] = tasks[t]
          /\ (Settled = DOMAIN tasks /\ last'.status # "INVALID_START_TIME")
               => (last'.code = 200 /\ tasks' = tasks)]_vars

\* A successful run scheduled a task and left a Completed one of the store out.
C13_Witness ==
  /\ OptimizeSucceeded
  /\ last.solved # {}
  /\ \E t \in DOMAIN tasks \ last.solved : tasks[t].status = "Completed"

\* A run found only Completed or Scheduled tasks and answered 200.
C13_WitnessNoEligible ==
  /\ last.op = "run_optimization"
  /\ last.code = 200
  /\ last.status = "NO_TASKS"
  /\ DOMAIN tasks # {}
  /\ Settled = DOMAIN tasks

\* ------------------------------------------------------------------ C14
\* The task that thread p's add_task request inserted, while its 201 is pending.
Inserted(p) ==
  IF conc[p].pc = "done" /\ conc[p].code = 201 THEN conc[p].written ELSE {}

\* C14: whatever the interleaving of two add_task requests for the same machine,
\* the two inserted tasks do not receive the same start_time.
C14_DistinctAnchors ==
  \A p, q \in Procs :
    p # q => \A t \in Inserted(p), u \in Inserted(q) :
               tasks[t].required_machine_id = tasks[u].required_machine_id
                 => tasks[t].start_time # tasks[u].start_time

\* Two add_task requests for the same machine ran one after the other: the second
\* read the store after the first had inserted, and its task starts later.
C14_SequentialAddsDiffer ==
  \E p, q \in Procs :
    /\ p # q
    /\ \E t \in Inserted(p), u \in Inserted(q) :
         /\ tasks[t].required_machine_id = tasks[u].required_machine_id
         /\ tasks[t].end_time # NULL
         /\ tasks[u].start_time >= RoundToMinute(tasks[t].end_time)
         /\ tasks[u].start_time > tasks[t].start_time

====
